---------------------------- MODULE Spec2Model ----------------------------
(***************************************************************************)
(* A model of the estr string interner: the downward bump allocator        *)
(* (src/src/bumpalloc.rs), the global registry of sharded string caches    *)
(* and the Estr handle (src/src/lib.rs).  The shard itself (module         *)
(* stringcache: StringCache, StringCacheEntry, NUM_BINS, TOP_SHIFT) is not *)
(* among the source files and is modelled from the specification.          *)
(*                                                                         *)
(* Addresses are plain naturals, one unit per byte; the null pointer is 0. *)
(* Word-sized values (usize, u64) written at address a occupy [a, a+8) and *)
(* are kept in the memory map under key a.  The digest is narrowed from 64 *)
(* to HashBits bits so that collisions actually occur.                     *)
(***************************************************************************)
EXTENDS Integers, Sequences, FiniteSets, TLC

VARIABLES
    cache,      \* STRING_CACHE: per bin, the LazyCell<StringCache>
    lock,       \* STRING_CACHE: per bin, the Mutex (the set of holders)
    mem,        \* the bytes of every arena, address -> value
    brk,        \* the system allocator: first address not yet handed out
    pc,         \* per thread: where it is inside Estr::from / from_existing
    op,         \* per thread: the entry point being run
    arg,        \* per thread: the &str argument
    hash,       \* per thread: the local `hash` (digest of arg)
    cur,        \* per thread: the pointer insert / get_existing produced
    fresh,      \* per thread: whether the running insert allocated an entry
    handed,     \* every <<text, handle>> some Estr::from has returned
    ncalls,     \* number of calls started so far
    proc,       \* "running" or "aborted" (libabort::abort)
    obs,        \* what the most recent read of a handle saw
    ar,         \* the arena exercised on its own (SpecAlloc)
    ar_out,     \* outcome of the last operation on ar
    hasher      \* the IdentityHasher exercised on its own (SpecHasher)

vars == <<cache, lock, mem, brk, pc, op, arg, hash, cur, fresh, handed,
          ncalls, proc, obs, ar, ar_out, hasher>>

---------------------------------------------------------------------------
\* Bounds of the model.

\* calls of Estr::from / Estr::from_existing in one run
MaxCalls == 3
\* first address the system allocator cannot hand out
HeapEnd == 112
\* largest request made of the arena exercised on its own
MaxReq == 24
\* writes made to the hasher exercised on its own
MaxWrites == 2
\* longest slice written to the hasher
MaxSlice == 9
\* longest string given to the shard exercised on its own
MaxStr == 44
\* largest capacity of the arena exercised on its own
MaxCap == 8

---------------------------------------------------------------------------
\* Program constants.

\* NUM_BINS (stringcache): number of shards, a power of two
NUM_BINS == 2
\* width of a digest in the model (u64 in the program)
HashBits == 2
\* bytes of a u64
WordBytes == 8
\* values of a byte in the model (256 in the program)
ByteRadix == 2
\* TOP_SHIFT (stringcache): digest width minus log2(NUM_BINS)
TOP_SHIFT == 1
\* size_of::<StringCacheEntry>(): {len: usize, hash: u64}
HeaderSize == 16
\* offset of the field hash inside the header
HashOffset == 8
\* align_of::<StringCacheEntry>()
Align == 8
\* capacity of a shard's first arena (scaled down from a few KiB)
INITIAL_ALLOC == 32
\* the seed of the digest (rapidhash DEFAULT_RAPID_SECRETS in the program)
Seed == 1

NULL == 0
Threads == 1..(NUM_BINS + 1)
Bins == 0..(NUM_BINS - 1)

Pow2(n) == 2 ^ n

Max(a, b) == IF a >= b THEN a ELSE b

\* The texts interned: <<1,2>> and <<2,1>>, of equal length and equal digest;
\* the empty string, in their bin with another digest; <<2>>, in the other bin.
Texts == {<<>>, <<1, 2>>, <<2, 1>>, <<2>>}

\* what a read of memory that was never written yields
Uninit == 0 - 1

Rd(m, a) == IF a \in DOMAIN m THEN m[a] ELSE Uninit

---------------------------------------------------------------------------
\* Pure functions.

RECURSIVE digest_fold(_, _)
digest_fold(h, s) ==
    IF s = <<>> THEN h
    ELSE digest_fold((h * 5 + Head(s)) % Pow2(HashBits), Tail(s))

\* digest(string): a deterministic seeded hash of the bytes, HashBits wide.
digest(string) == digest_fold(Seed % Pow2(HashBits), string)

\* the shard taken from the low bits of the digest
whichbin_low_bits(h) == h % NUM_BINS

\* whichbin(hash): the top bits of the hash choose the bin.
whichbin(h) == (h \div Pow2(TOP_SHIFT)) % NUM_BINS

\* x & !m on naturals
RECURSIVE BitAndNot(_, _)
BitAndNot(x, m) ==
    IF x = 0 THEN 0
    ELSE (IF m % 2 = 0 THEN x % 2 ELSE 0) + 2 * BitAndNot(x \div 2, m \div 2)

IsPow2(n) == \E k \in 0..7 : n = Pow2(k)

---------------------------------------------------------------------------
\* LeakyBumpAlloc (bumpalloc.rs).

NoArena == [start |-> NULL, end |-> NULL, ptr |-> NULL, align |-> 1, size |-> 0]

\* alloc(layout): the system allocator hands out the next aligned block, or
\* null when the block does not fit below HeapEnd.
sys_alloc(b, size, alignment) ==
    LET a == ((b + alignment - 1) \div alignment) * alignment
    IN  IF a + size <= HeapEnd THEN a ELSE NULL

\* LeakyBumpAlloc::new(capacity, alignment) with the system allocator at b.
\* Layout::from_size_align(..).unwrap() panics unless alignment is a power
\* of two; a null block panics with "oom".
new(capacity, alignment, b) ==
    IF ~IsPow2(alignment)
    THEN [outcome |-> "panic", arena |-> NoArena, brk |-> b]
    ELSE LET start == sys_alloc(b, capacity, alignment)
         IN  IF start = NULL
             THEN [outcome |-> "panic", arena |-> NoArena, brk |-> b]
             ELSE [outcome |-> "ok",
                   arena |-> [start |-> start, end |-> start + capacity,
                              ptr |-> start + capacity, align |-> alignment,
                              size |-> capacity],
                   brk |-> start + capacity]

\* allocate without the rounding down to the arena's alignment
allocate_unaligned(a, num_bytes) ==
    IF num_bytes > a.ptr
    THEN [outcome |-> "panic", arena |-> a, ptr |-> NULL]
    ELSE LET new_ptr == a.ptr - num_bytes
         IN  IF new_ptr < a.start
             THEN [outcome |-> "abort", arena |-> a, ptr |-> NULL]
             ELSE [outcome |-> "ok",
                   arena |-> [a EXCEPT !.ptr = a.ptr - (a.ptr - new_ptr)],
                   ptr |-> a.ptr - (a.ptr - new_ptr)]

\* allocate that returns the new pointer without storing it in self.ptr
allocate_no_bump(a, num_bytes) ==
    IF num_bytes > a.ptr
    THEN [outcome |-> "panic", arena |-> a, ptr |-> NULL]
    ELSE LET new_ptr == BitAndNot(a.ptr - num_bytes, a.align - 1)
         IN  IF new_ptr < a.start
             THEN [outcome |-> "abort", arena |-> a, ptr |-> NULL]
             ELSE [outcome |-> "ok", arena |-> a,
                   ptr |-> a.ptr - (a.ptr - new_ptr)]

\* allocate that also aborts when the new pointer equals start
allocate_off_by_one(a, num_bytes) ==
    IF num_bytes > a.ptr
    THEN [outcome |-> "panic", arena |-> a, ptr |-> NULL]
    ELSE LET new_ptr == BitAndNot(a.ptr - num_bytes, a.align - 1)
         IN  IF new_ptr <= a.start
             THEN [outcome |-> "abort", arena |-> a, ptr |-> NULL]
             ELSE [outcome |-> "ok",
                   arena |-> [a EXCEPT !.ptr = a.ptr - (a.ptr - new_ptr)],
                   ptr |-> a.ptr - (a.ptr - new_ptr)]

\* LeakyBumpAlloc::allocate(num_bytes): the outcome, the arena afterwards and
\* the pointer returned.
allocate(a, num_bytes) ==
    IF num_bytes > a.ptr
    THEN [outcome |-> "panic", arena |-> a, ptr |-> NULL]
    ELSE LET new_ptr == BitAndNot(a.ptr - num_bytes, a.align - 1)
         IN  IF new_ptr < a.start
             THEN [outcome |-> "abort", arena |-> a, ptr |-> NULL]
             ELSE [outcome |-> "ok",
                   arena |-> [a EXCEPT !.ptr = a.ptr - (a.ptr - new_ptr)],
                   ptr |-> a.ptr - (a.ptr - new_ptr)]

allocated(a) == a.end - a.ptr

capacity(a) == a.size

---------------------------------------------------------------------------
\* The Estr handle (lib.rs): a handle is the address of bytes[0] of its entry.

\* the header looked for half a StringCacheEntry before char_ptr
as_string_cache_entry_short(p) == p - HashOffset

\* as_string_cache_entry: the header sits one StringCacheEntry before char_ptr
as_string_cache_entry(p) == p - HeaderSize

\* Estr::len: the field len of the header
Estr_len(m, p) == Rd(m, as_string_cache_entry(p))

\* the field len read in place of the field hash
Estr_digest_reads_len(m, p) == Rd(m, as_string_cache_entry(p))

\* Estr::digest: the field hash of the header
Estr_digest(m, p) == Rd(m, as_string_cache_entry(p) + HashOffset)

\* Estr::as_str: len() bytes from char_ptr on
Estr_as_str(m, p) == [i \in 1..Estr_len(m, p) |-> Rd(m, p + i - 1)]

\* handles compared by their digests instead of their pointers
Estr_eq_by_digest(a, b) == Estr_digest(mem, a) = Estr_digest(mem, b)

\* #[derive(PartialEq)] on Estr { char_ptr }: pointer identity
Estr_eq(a, b) == a = b

\* u64::cmp
u64_cmp(x, y) == IF x < y THEN "Less" ELSE IF x = y THEN "Equal" ELSE "Greater"

\* handles ordered by their addresses
Estr_cmp_by_address(m, a, b) == u64_cmp(a, b)

\* impl Ord for Estr (partial_cmp is Some of it): by the stored digests
Estr_cmp(m, a, b) == u64_cmp(Estr_digest(m, a), Estr_digest(m, b))

---------------------------------------------------------------------------
\* StringCache, one shard (modelled from the specification).

Uninitialised ==
    [lazy |-> "uninit", entries |-> {}, alloc |-> NoArena, old_allocs |-> <<>>]

\* StringCache::new: an empty lookup set and the first arena
StringCache_new(b) ==
    LET r == new(INITIAL_ALLOC, Align, b)
    IN  IF r.outcome = "ok"
        THEN [outcome |-> "ok", brk |-> r.brk,
              sc |-> [lazy |-> "init", entries |-> {}, alloc |-> r.arena,
                      old_allocs |-> <<>>]]
        ELSE [outcome |-> "panic", brk |-> b,
              sc |-> [Uninitialised EXCEPT !.lazy = "poisoned"]]

\* LazyCell::force, run by the deref of the guard in from / from_existing:
\* the first use runs StringCache::new; a cell whose initialiser panicked is
\* poisoned and panics again.
force(sc, b) ==
    IF sc.lazy = "init" THEN [outcome |-> "ok", brk |-> b, sc |-> sc]
    ELSE IF sc.lazy = "uninit" THEN StringCache_new(b)
    ELSE [outcome |-> "panic", brk |-> b, sc |-> sc]

\* The stored entries whose header matches (len, hash) and whose bytes equal
\* the probe.
find(m, sc, string, h) ==
    {e \in sc.entries : /\ Estr_digest(m, e) = h
                        /\ Estr_len(m, e) = Len(string)
                        /\ Estr_as_str(m, e) = string}

\* StringCache::get_existing: the stored pointer, or null (None)
get_existing(m, sc, string, h) ==
    IF find(m, sc, string, h) = {} THEN NULL
    ELSE CHOOSE e \in find(m, sc, string, h) : TRUE

\* header_size + len + alignment_padding
needed(string) == HeaderSize + Len(string) + (Align - 1)

\* whether the entry fits in the current arena
fits(a, string) == allocated(a) + needed(string) <= capacity(a)

\* the capacity of the next arena
next_capacity(a, string) == Max(2 * capacity(a), needed(string))

\* The allocating half of StringCache::insert: replace the arena when the
\* entry does not fit, then allocate header and bytes from the current one.
insert_alloc(sc, string, b) ==
    LET g == IF fits(sc.alloc, string)
             THEN [outcome |-> "ok", arena |-> sc.alloc, brk |-> b]
             ELSE new(next_capacity(sc.alloc, string), Align, b)
    IN  IF g.outcome # "ok"
        THEN [outcome |-> g.outcome, sc |-> sc, brk |-> b, ptr |-> NULL]
        ELSE LET olds == IF fits(sc.alloc, string) THEN sc.old_allocs
                         ELSE Append(sc.old_allocs, sc.alloc)
                 r == allocate(g.arena, HeaderSize + Len(string))
             IN  [outcome |-> r.outcome,
                  sc |-> [sc EXCEPT !.alloc = r.arena, !.old_allocs = olds],
                  brk |-> g.brk,
                  ptr |-> IF r.outcome = "ok" THEN r.ptr + HeaderSize ELSE NULL]

\* The writing half of insert: header {len, hash} and the bytes at char_ptr.
write_entry(m, p, string, h) ==
    [a \in DOMAIN m \cup {p - HeaderSize, p - HeaderSize + HashOffset}
                    \cup {p + i - 1 : i \in 1..Len(string)} |->
        IF a = p - HeaderSize THEN Len(string)
        ELSE IF a = p - HeaderSize + HashOffset THEN h
        ELSE IF a >= p /\ a < p + Len(string) THEN string[a - p + 1]
        ELSE m[a]]

---------------------------------------------------------------------------
\* The state machine: threads calling Estr::from and Estr::from_existing,
\* and reading handles.

NoObs == [a |-> NULL, b |-> NULL, str |-> <<>>, len |-> 0, digest |-> 0,
          eq |-> FALSE, cmp |-> "none", held |-> {}]

\* IdentityHasher (collections.rs). A u64 is WordBytes bytes; a byte of the
\* model has ByteRadix values, so that a word fits 32-bit integers.

\* the bytes of the u64 v in the byte order e of the target
RECURSIVE le_bytes(_, _)
le_bytes(v, n) ==
    IF n = 0 THEN <<>> ELSE <<v % ByteRadix>> \o le_bytes(v \div ByteRadix, n - 1)

Reverse(q) == [i \in 1..Len(q) |-> q[Len(q) + 1 - i]]

to_ne_bytes(v, e) ==
    IF e = "little" THEN le_bytes(v, WordBytes) ELSE Reverse(le_bytes(v, WordBytes))

\* LittleEndian::read_u64 / BigEndian::read_u64: the first WordBytes bytes of
\* the slice, folded from the most significant byte down
RECURSIVE read_be(_, _)
read_be(q, n) ==
    IF n = 0 THEN 0 ELSE read_be(q, n - 1) * ByteRadix + q[n]

\* NativeEndian::read_u64 on a target of byte order e
read_u64(q, e) ==
    IF e = "big" THEN read_be(q, WordBytes)
    ELSE read_be(Reverse(SubSeq(q, 1, WordBytes)), WordBytes)

\* no hasher has been made yet
NoHasher == [made |-> FALSE, endian |-> "little", hash |-> 0, log |-> <<>>]

\* IdentityHasher::default() on a target of byte order e; log is the list of
\* the slices written so far
IdentityHasher_default(e) ==
    [made |-> TRUE, endian |-> e, hash |-> 0, log |-> <<>>]

\* a write that takes the first 8 bytes of any slice that has them
IdentityHasher_write_prefix(h, bytes) ==
    IF Len(bytes) >= WordBytes
    THEN [h EXCEPT !.hash = read_u64(bytes, h.endian)]
    ELSE h

\* IdentityHasher::write(bytes)
IdentityHasher_write(h, bytes) ==
    IF Len(bytes) = WordBytes
    THEN [h EXCEPT !.hash = read_u64(bytes, h.endian)]
    ELSE h

\* IdentityHasher::finish()
IdentityHasher_finish(h) == h.hash

---------------------------------------------------------------------------
\* nothing has been done to the arena exercised on its own: the operation, its
\* outcome, the pointer it returned, its size argument, its alignment
\* argument, the cursor before it, and the regions <<p, n>> with n > 0 that
\* allocate has returned so far, in the order of the calls
NoOut == [opn |-> "none", outcome |-> "none", ptr |-> NULL, n |-> 0, al |-> 1,
          prev |-> NULL, regs |-> <<>>]

Init ==
    /\ cache = [b \in Bins |-> Uninitialised]
    /\ lock = [b \in Bins |-> {}]
    /\ mem = <<>>
    /\ brk = Align
    /\ pc = [t \in Threads |-> "idle"]
    /\ op = [t \in Threads |-> "none"]
    /\ arg = [t \in Threads |-> <<>>]
    /\ hash = [t \in Threads |-> 0]
    /\ cur = [t \in Threads |-> NULL]
    /\ fresh = [t \in Threads |-> FALSE]
    /\ handed = {}
    /\ ncalls = 0
    /\ proc = "running"
    /\ obs = NoObs
    /\ ar = NoArena
    /\ ar_out = NoOut
    /\ hasher = NoHasher

Handles == {e[2] : e \in handed}

\* a lock that excludes nobody
can_lock_always(holders) == TRUE

\* one lock for all the shards: lock() waits until no shard is held
can_lock_global(holders) == \A b \in Bins : lock[b] = {}

\* Mutex::lock returns only when nobody holds the mutex
can_lock(holders) == holders = {}

\* The effect of a panic in thread t holding the lock of bin b: unwinding
\* drops the guard, the thread is gone.
Unwind(t, b) ==
    /\ pc' = [pc EXCEPT ![t] = "panicked"]
    /\ lock' = [lock EXCEPT ![b] = @ \ {t}]
    /\ cur' = [cur EXCEPT ![t] = NULL]
    /\ fresh' = [fresh EXCEPT ![t] = FALSE]

\* A thread enters Estr::from or Estr::from_existing: `digest(string)`.
\* Idle threads are interchangeable, so the call is made by the first one.
Call(t, o, string) ==
    /\ proc = "running"
    /\ pc[t] = "idle"
    /\ \A u \in Threads : u < t => pc[u] # "idle"
    /\ ncalls < MaxCalls
    /\ pc' = [pc EXCEPT ![t] = "lock"]
    /\ op' = [op EXCEPT ![t] = o]
    /\ arg' = [arg EXCEPT ![t] = string]
    /\ hash' = [hash EXCEPT ![t] = digest(string)]
    /\ ncalls' = ncalls + 1
    /\ UNCHANGED <<cache, lock, mem, brk, cur, fresh, handed, proc, obs, ar, ar_out, hasher>>

\* a lock() that returns whether or not the mutex is held
Acquire_no_wait(t) ==
    /\ proc = "running"
    /\ pc[t] = "lock"
    /\ lock' = [lock EXCEPT ![whichbin(hash[t])] = @ \cup {t}]
    /\ pc' = [pc EXCEPT ![t] = "find"]
    /\ UNCHANGED <<cache, mem, brk, op, arg, hash, cur, fresh, handed, ncalls,
                   proc, obs, ar, ar_out, hasher>>

\* `STRING_CACHE[whichbin(hash)].lock()`
Acquire(t) ==
    /\ proc = "running"
    /\ pc[t] = "lock"
    /\ can_lock(lock[whichbin(hash[t])])
    /\ lock' = [lock EXCEPT ![whichbin(hash[t])] = @ \cup {t}]
    /\ pc' = [pc EXCEPT ![t] = "find"]
    /\ UNCHANGED <<cache, mem, brk, op, arg, hash, cur, fresh, handed, ncalls,
                   proc, obs, ar, ar_out, hasher>>

\* `sc.insert(string, hash)` up to the allocation: force the cell, look the
\* string up, and allocate an entry when it is absent.
InsertFind(t) ==
    LET b == whichbin(hash[t])
        f == force(cache[b], brk)
        hit == get_existing(mem, f.sc, arg[t], hash[t])
        r == insert_alloc(f.sc, arg[t], f.brk)
    IN  /\ proc = "running"
        /\ pc[t] = "find"
        /\ op[t] = "from"
        /\ IF f.outcome # "ok"
           THEN /\ Unwind(t, b)
                /\ cache' = [cache EXCEPT ![b] = f.sc]
                /\ UNCHANGED <<brk, proc>>
           ELSE IF hit # NULL
           THEN /\ cache' = [cache EXCEPT ![b] = f.sc]
                /\ brk' = f.brk
                /\ cur' = [cur EXCEPT ![t] = hit]
                /\ pc' = [pc EXCEPT ![t] = "unlock"]
                /\ UNCHANGED <<lock, fresh, proc>>
           ELSE IF r.outcome = "ok"
           THEN /\ cache' = [cache EXCEPT ![b] = r.sc]
                /\ brk' = r.brk
                /\ cur' = [cur EXCEPT ![t] = r.ptr]
                /\ fresh' = [fresh EXCEPT ![t] = TRUE]
                /\ pc' = [pc EXCEPT ![t] = "write"]
                /\ UNCHANGED <<lock, proc>>
           ELSE IF r.outcome = "panic"
           THEN /\ Unwind(t, b)
                /\ cache' = [cache EXCEPT ![b] = f.sc]
                /\ brk' = f.brk
                /\ UNCHANGED proc
           ELSE /\ proc' = "aborted"
                /\ cache' = [cache EXCEPT ![b] = f.sc]
                /\ brk' = f.brk
                /\ UNCHANGED <<pc, lock, cur, fresh>>
        /\ UNCHANGED <<mem, op, arg, hash, handed, ncalls, obs, ar, ar_out, hasher>>

\* insert: write the header and copy the bytes
InsertWrite(t) ==
    /\ proc = "running"
    /\ pc[t] = "write"
    /\ mem' = write_entry(mem, cur[t], arg[t], hash[t])
    /\ pc' = [pc EXCEPT ![t] = "publish"]
    /\ UNCHANGED <<cache, lock, brk, op, arg, hash, cur, fresh, handed, ncalls,
                   proc, obs, ar, ar_out, hasher>>

\* insert: put the handle in the lookup set
InsertPublish(t) ==
    /\ proc = "running"
    /\ pc[t] = "publish"
    /\ cache' = [cache EXCEPT ![whichbin(hash[t])].entries = @ \cup {cur[t]}]
    /\ pc' = [pc EXCEPT ![t] = "unlock"]
    /\ UNCHANGED <<lock, mem, brk, op, arg, hash, cur, fresh, handed, ncalls,
                   proc, obs, ar, ar_out, hasher>>

\* from_existing looking in the bin of the low bits of the hash
Lookup_low_bits(t) ==
    LET b == hash[t] % NUM_BINS
        f == force(cache[b], brk)
    IN  /\ proc = "running"
        /\ pc[t] = "find"
        /\ op[t] = "from_existing"
        /\ cache' = [cache EXCEPT ![b] = f.sc]
        /\ brk' = f.brk
        /\ IF f.outcome # "ok"
           THEN Unwind(t, whichbin(hash[t]))
           ELSE /\ cur' = [cur EXCEPT ![t] = get_existing(mem, f.sc, arg[t], hash[t])]
                /\ pc' = [pc EXCEPT ![t] = "unlock"]
                /\ UNCHANGED <<lock, fresh>>
        /\ UNCHANGED <<mem, op, arg, hash, handed, ncalls, proc, obs, ar, ar_out, hasher>>

\* from_existing calling insert's allocation when the string is absent
Lookup_allocating(t) ==
    LET b == whichbin(hash[t])
        f == force(cache[b], brk)
        hit == get_existing(mem, f.sc, arg[t], hash[t])
        r == insert_alloc(f.sc, arg[t], f.brk)
    IN  /\ proc = "running"
        /\ pc[t] = "find"
        /\ op[t] = "from_existing"
        /\ IF f.outcome # "ok"
           THEN /\ Unwind(t, b)
                /\ cache' = [cache EXCEPT ![b] = f.sc]
                /\ brk' = f.brk
           ELSE /\ cache' = [cache EXCEPT ![b] =
                                IF hit = NULL /\ r.outcome = "ok" THEN r.sc ELSE f.sc]
                /\ brk' = IF hit = NULL /\ r.outcome = "ok" THEN r.brk ELSE f.brk
                /\ cur' = [cur EXCEPT ![t] = hit]
                /\ pc' = [pc EXCEPT ![t] = "unlock"]
                /\ UNCHANGED <<lock, fresh>>
        /\ UNCHANGED <<mem, op, arg, hash, handed, ncalls, proc, obs, ar, ar_out, hasher>>

\* `sc.get_existing(string, hash)`: force the cell and look the string up
Lookup(t) ==
    LET b == whichbin(hash[t])
        f == force(cache[b], brk)
    IN  /\ proc = "running"
        /\ pc[t] = "find"
        /\ op[t] = "from_existing"
        /\ cache' = [cache EXCEPT ![b] = f.sc]
        /\ brk' = f.brk
        /\ IF f.outcome # "ok"
           THEN Unwind(t, b)
           ELSE /\ cur' = [cur EXCEPT ![t] = get_existing(mem, f.sc, arg[t], hash[t])]
                /\ pc' = [pc EXCEPT ![t] = "unlock"]
                /\ UNCHANGED <<lock, fresh>>
        /\ UNCHANGED <<mem, op, arg, hash, handed, ncalls, proc, obs, ar, ar_out, hasher>>

\* The call returns cur[t] (from: the handle; from_existing: Some of it, or
\* None for null) and the guard is dropped.
Return(t) ==
    /\ proc = "running"
    /\ pc[t] = "unlock"
    /\ lock' = [lock EXCEPT ![whichbin(hash[t])] = @ \ {t}]
    /\ handed' = IF op[t] = "from" THEN handed \cup {<<arg[t], cur[t]>>} ELSE handed
    /\ pc' = [pc EXCEPT ![t] = "idle"]
    /\ op' = [op EXCEPT ![t] = "none"]
    /\ arg' = [arg EXCEPT ![t] = <<>>]
    /\ hash' = [hash EXCEPT ![t] = 0]
    /\ cur' = [cur EXCEPT ![t] = NULL]
    /\ fresh' = [fresh EXCEPT ![t] = FALSE]
    /\ UNCHANGED <<cache, mem, brk, ncalls, proc, obs, ar, ar_out, hasher>>

\* reads that wait until no shard lock is held
can_read_unlocked(t) == pc[t] = "idle" /\ \A b \in Bins : lock[b] = {}

\* whether a thread may start reading handles (as_str, len, digest, ==, cmp
\* take no lock)
can_read(t) == pc[t] = "idle"

\* A thread that is not inside a call reads two handles it was given.
ReadOp(t, a, b) ==
    /\ proc = "running"
    /\ can_read(t)
    /\ a \in Handles
    /\ b \in Handles
    /\ obs' = [a |-> a, b |-> b, str |-> Estr_as_str(mem, a),
               len |-> Estr_len(mem, a), digest |-> Estr_digest(mem, a),
               eq |-> Estr_eq(a, b), cmp |-> Estr_cmp(mem, a, b),
               held |-> {bin \in Bins : lock[bin] # {}}]
    /\ UNCHANGED <<cache, lock, mem, brk, pc, op, arg, hash, cur, fresh, handed,
                   ncalls, proc, ar, ar_out, hasher>>

\* LeakyBumpAlloc::new on its own, the system allocator standing at b.
ArenaNew(cap, alignment, b) ==
    LET r == new(cap, alignment, b)
    IN  /\ ar_out.opn = "none"
        /\ ar' = r.arena
        /\ ar_out' = [opn |-> "new", outcome |-> r.outcome, ptr |-> r.arena.start,
                      n |-> cap, al |-> alignment, prev |-> NULL, regs |-> <<>>]
        /\ UNCHANGED <<cache, lock, mem, brk, pc, op, arg, hash, cur, fresh,
                       handed, ncalls, proc, obs, hasher>>

\* LeakyBumpAlloc::allocate on its own; nothing runs after an abort or a panic.
ArenaAllocate(n) ==
    LET r == allocate(ar, n)
    IN  /\ ar_out.opn \in {"new", "allocate"}
        /\ ar_out.outcome = "ok"
        /\ ar' = r.arena
        /\ ar_out' = [opn |-> "allocate", outcome |-> r.outcome, ptr |-> r.ptr,
                      n |-> n, al |-> ar.align, prev |-> ar.ptr,
                      regs |-> IF r.outcome = "ok" /\ n > 0
                               THEN Append(ar_out.regs, <<r.ptr, n>>)
                               ELSE ar_out.regs]
        /\ UNCHANGED <<cache, lock, mem, brk, pc, op, arg, hash, cur, fresh,
                       handed, ncalls, proc, obs, hasher>>

\* where the system allocator may stand when the arena is created: low in the
\* heap, or so close to its end that only the smaller capacities still fit
Brks == (Align..(2 * Align)) \cup {HeapEnd - (MaxCap \div 2)}

NextAlloc ==
    \/ \E cap \in 1..MaxCap, alignment \in 1..Align, b \in Brks :
          ArenaNew(cap, alignment, b)
    \/ \E n \in 0..MaxReq : ArenaAllocate(n)

SpecAlloc == Init /\ [][NextAlloc]_vars

\* a string of n bytes
Str(n) == [i \in 1..n |-> 1]

\* One shard on its own, first use: the deref of the guard forces the
\* LazyCell, which runs StringCache::new.
ShardForce ==
    LET f == force(cache[0], brk)
    IN  /\ proc = "running"
        /\ cache[0].lazy = "uninit"
        /\ cache' = [cache EXCEPT ![0] = f.sc]
        /\ brk' = f.brk
        /\ ar_out' = [NoOut EXCEPT !.opn = "force", !.outcome = f.outcome]
        /\ UNCHANGED <<lock, mem, pc, op, arg, hash, cur, fresh, handed, ncalls,
                       proc, obs, ar, hasher>>

\* One shard on its own: the allocating half of insert for a string of n
\* bytes that is not stored yet (fits or grows, then allocate).
ShardInsert(n) ==
    LET r == insert_alloc(cache[0], Str(n), brk)
    IN  /\ proc = "running"
        /\ cache[0].lazy = "init"
        /\ cache' = [cache EXCEPT ![0] = r.sc]
        /\ brk' = r.brk
        /\ proc' = IF r.outcome = "abort" THEN "aborted" ELSE proc
        /\ ar_out' = [NoOut EXCEPT !.opn = "insert", !.outcome = r.outcome,
                                   !.ptr = r.ptr, !.n = n,
                                   !.prev = cache[0].alloc.ptr]
        /\ UNCHANGED <<lock, mem, pc, op, arg, hash, cur, fresh, handed, ncalls,
                       obs, ar, hasher>>

NextGrow ==
    \/ ShardForce
    \/ \E n \in 0..MaxStr : ShardInsert(n)

SpecGrow == Init /\ [][NextGrow]_vars

\* the slice of n bytes that is zero except for a one at position j
Slice(n, j) == [i \in 1..n |-> IF i = j THEN 1 ELSE 0]

\* what is written to the hasher: slices of every length up to MaxSlice, all
\* zero or marked at their first or last byte, and the bytes of every digest
\* on a target of byte order e
Slices(e) ==
    UNION {{Slice(n, j) : j \in {0, 1, n}} : n \in 0..MaxSlice}
        \cup {to_ne_bytes(d, e) : d \in 0..(Pow2(HashBits) - 1)}

\* BuildHasherDefault<IdentityHasher>::build_hasher
HasherDefault(e) ==
    /\ ~hasher.made
    /\ hasher' = IdentityHasher_default(e)
    /\ UNCHANGED <<cache, lock, mem, brk, pc, op, arg, hash, cur, fresh, handed,
                   ncalls, proc, obs, ar, ar_out>>

\* Hasher::write on the hasher
HasherWrite(bytes) ==
    /\ hasher.made
    /\ Len(hasher.log) < MaxWrites
    /\ hasher' = [IdentityHasher_write(hasher, bytes) EXCEPT
                     !.log = Append(hasher.log, bytes)]
    /\ UNCHANGED <<cache, lock, mem, brk, pc, op, arg, hash, cur, fresh, handed,
                   ncalls, proc, obs, ar, ar_out>>

NextHasher ==
    \/ \E e \in {"little", "big"} : HasherDefault(e)
    \/ \E bytes \in Slices(hasher.endian) : HasherWrite(bytes)

SpecHasher == Init /\ [][NextHasher]_vars

Next ==
    \/ \E t \in Threads, o \in {"from", "from_existing"}, x \in Texts : Call(t, o, x)
    \/ \E t \in Threads : Acquire(t)
    \/ \E t \in Threads : InsertFind(t)
    \/ \E t \in Threads : InsertWrite(t)
    \/ \E t \in Threads : InsertPublish(t)
    \/ \E t \in Threads : Lookup(t)
    \/ \E t \in Threads : Return(t)
    \/ \E t \in Threads, a \in Handles, b \in Handles : ReadOp(t, a, b)

Spec == Init /\ [][Next]_vars

---------------------------------------------------------------------------
\* Properties.

\* the text a handle was returned for
TextOf(h) == CHOOSE x \in Texts : <<x, h>> \in handed

\* lexicographic order of byte strings
RECURSIVE LexLess(_, _)
LexLess(x, y) ==
    IF y = <<>> THEN FALSE
    ELSE IF x = <<>> THEN TRUE
    ELSE IF Head(x) # Head(y) THEN Head(x) < Head(y)
    ELSE LexLess(Tail(x), Tail(y))

Range(f) == {f[i] : i \in DOMAIN f}

\* the blocks a shard owns, current and retained
Arenas(sc) ==
    {<<a.start, a.end>> : a \in ({sc.alloc} \cup Range(sc.old_allocs)) \ {NoArena}}

\* thread t takes the step of from_existing that looks the string up
LookupStep(t) == pc[t] = "find" /\ op[t] = "from_existing" /\ pc'[t] # "find"

\* thread t takes the first step of insert
InsertStep(t) == pc[t] = "find" /\ op[t] = "from" /\ pc'[t] # "find"

\* C1: two handles returned by Estr::from are equal (pointer identity) if and
\* only if the texts they were returned for have equal bytes, also when the
\* digests of distinct texts collide.
C1_HandleEqIffBytesEq ==
    \A e1, e2 \in handed : Estr_eq(e1[2], e2[2]) <=> (e1[1] = e2[1])

\* two distinct texts of equal length and equal digest have both been interned
C1_Witness ==
    \E e1, e2 \in handed : /\ e1[1] # e2[1]
                           /\ Len(e1[1]) = Len(e2[1])
                           /\ digest(e1[1]) = digest(e2[1])

\* C2: whatever the interleaving, no string has two entries: the entries of a
\* shard have pairwise different bytes, and the handles returned are as many
\* as the distinct strings interned.
C2_OneEntryPerString ==
    /\ \A b \in Bins : \A p, q \in cache[b].entries :
           Estr_as_str(mem, p) = Estr_as_str(mem, q) => p = q
    /\ Cardinality(Handles) = Cardinality({e[1] : e \in handed})

\* a thread waits for the shard lock to intern the string another thread has
\* just inserted as new and not yet returned
C2_Witness ==
    \E t, u \in Threads : /\ t # u
                          /\ op[t] = "from" /\ op[u] = "from"
                          /\ arg[t] = arg[u]
                          /\ pc[t] = "lock"
                          /\ pc[u] = "unlock" /\ fresh[u]

\* C3: a handle returned for text x reads back as x, with len() the length
\* of x and digest() the digest of x; every stored header holds the digest of
\* the bytes that follow it.
C3_RoundTrip ==
    /\ \A e \in handed : /\ Estr_as_str(mem, e[2]) = e[1]
                         /\ Estr_len(mem, e[2]) = Len(e[1])
                         /\ Estr_digest(mem, e[2]) = digest(e[1])
    /\ \A b \in Bins : \A p \in cache[b].entries :
           /\ Estr_len(mem, p) = Len(Estr_as_str(mem, p))
           /\ Estr_digest(mem, p) = digest(Estr_as_str(mem, p))

\* the empty string and a non-empty string have been interned
C3_Witness ==
    /\ \E e \in handed : e[1] = <<>>
    /\ \E e \in handed : e[1] # <<>>

C5_LookupChangesNoShard ==
    [][\A t \in Threads : LookupStep(t) => UNCHANGED <<cache, mem, brk>>]_vars

\* C5 as amended: the lookup of from_existing adds no entry, writes no memory
\* and allocates nothing from any arena; it leaves every other shard and
\* every shard already initialised unchanged, and on a shard never used
\* before its only effect is that shard's lazy initialisation.
C5_LookupFrame ==
    [][\A t \in Threads : LookupStep(t) =>
          /\ mem' = mem
          /\ handed' = handed
          /\ \A b \in Bins :
               /\ cache'[b].entries = cache[b].entries
               /\ allocated(cache'[b].alloc) = allocated(cache[b].alloc)
               /\ cache'[b].old_allocs = cache[b].old_allocs
               /\ b # whichbin(hash[t]) => cache'[b] = cache[b]
               /\ cache[b].lazy = "init" => cache'[b] = cache[b]
               /\ cache[whichbin(hash[t])].lazy = "init" => brk' = brk
               /\ cache'[b] # cache[b] =>
                    \/ cache'[b] = StringCache_new(brk).sc
                    \/ cache'[b].lazy = "poisoned"]_vars

\* the first call of the run is a from_existing, and it initialised its shard
C5_Witness ==
    /\ ncalls = 1
    /\ \E t \in Threads : /\ pc[t] = "unlock" /\ op[t] = "from_existing"
                          /\ cache[whichbin(hash[t])].lazy = "init"

\* C6: in every step, every handle returned so far reads the same bytes, len
\* and digest after the step as before it; no written byte changes, no entry
\* leaves its lookup set and no arena leaves its shard.
C6_Stability ==
    [][/\ \A e \in handed : /\ Estr_as_str(mem', e[2]) = Estr_as_str(mem, e[2])
                            /\ Estr_len(mem', e[2]) = Estr_len(mem, e[2])
                            /\ Estr_digest(mem', e[2]) = Estr_digest(mem, e[2])
       /\ \A a \in DOMAIN mem : a \in DOMAIN mem' /\ mem'[a] = mem[a]
       /\ \A b \in Bins : /\ cache[b].entries \subseteq cache'[b].entries
                          /\ Arenas(cache[b]) \subseteq Arenas(cache'[b])]_vars

\* a handle that points into a retained arena still reads as its text after
\* an entry was written into the larger arena that replaced it
C6_Witness ==
    \E b \in Bins, e1, e2 \in handed :
        /\ Len(cache[b].old_allocs) >= 1
        /\ cache[b].old_allocs[1].start < e1[2]
        /\ e1[2] <= cache[b].old_allocs[1].end
        /\ cache[b].alloc.start < e2[2]
        /\ e2[2] <= cache[b].alloc.end
        /\ capacity(cache[b].alloc) > capacity(cache[b].old_allocs[1])
        /\ Estr_as_str(mem, e1[2]) = e1[1]

\* C7: the insert of a text some from has already returned a handle for
\* yields that handle and changes no lookup set, no arena and no memory.
C7_InternIdempotent ==
    [][\A t \in Threads :
          (InsertStep(t) /\ \E e \in handed : e[1] = arg[t]) =>
              /\ <<arg[t], cur'[t]>> \in handed
              /\ pc'[t] = "unlock"
              /\ UNCHANGED <<cache, mem, brk, handed>>]_vars

\* a second from of an interned text is about to return the stored handle
C7_Witness ==
    \E t \in Threads : /\ pc[t] = "unlock" /\ op[t] = "from"
                       /\ ~fresh[t]
                       /\ <<arg[t], cur[t]>> \in handed

\* C8: cmp orders handles as their texts' digests are ordered, whatever the
\* order of their bytes and of their addresses; it is antisymmetric.
C8_OrdByDigest ==
    /\ \A e1, e2 \in handed :
           /\ Estr_cmp(mem, e1[2], e2[2]) = u64_cmp(digest(e1[1]), digest(e2[1]))
           /\ Estr_cmp(mem, e1[2], e2[2]) = "Less"
                  <=> Estr_cmp(mem, e2[2], e1[2]) = "Greater"
    /\ obs.cmp # "none" =>
           obs.cmp = u64_cmp(digest(TextOf(obs.a)), digest(TextOf(obs.b)))

\* a comparison gave Less for a handle at the higher address whose text is
\* the greater one lexicographically
C8_Witness ==
    /\ obs.cmp = "Less"
    /\ obs.a > obs.b
    /\ LexLess(TextOf(obs.b), TextOf(obs.a))

\* C9: a thread outside a call can always read any handle, whoever holds the
\* shard locks, and a read changes nothing but what the reader sees.
C9_ReadsTakeNoLock ==
    [][/\ \A t \in Threads, a \in Handles, b \in Handles :
              (proc = "running" /\ pc[t] = "idle") => ENABLED ReadOp(t, a, b)
       /\ obs' # obs =>
              UNCHANGED <<cache, lock, mem, brk, pc, op, arg, hash, cur, fresh,
                          handed, ncalls, proc>>]_vars

\* a handle was read while the lock of every shard was held
C9_Witness == obs.a # NULL /\ obs.held = Bins

\* C10: allocate ends in a returned pointer or in an abort, never in a panic.
C10_AllocateNeverPanics ==
    ar_out.opn = "allocate" => ar_out.outcome \in {"ok", "abort"}

---------------------------------------------------------------------------
\* Arena creation.

\* C11: when the system allocator cannot provide the block, arena creation
\* ends the process by abort; it never ends in a panic.
C11_NewOomNeverPanics ==
    (ar_out.opn = "new" /\ IsPow2(ar_out.al)) => ar_out.outcome # "panic"

---------------------------------------------------------------------------
\* Arena allocation.

\* C12: whenever allocate(n) returns on an arena whose alignment A is a power
\* of two, the pointer p it returns is a multiple of A, start <= p,
\* p + n <= previous cursor <= end, and the new cursor equals p.
C12_AllocateRegion ==
    (ar_out.opn = "allocate" /\ ar_out.outcome = "ok" /\ IsPow2(ar.align)) =>
        /\ ar_out.ptr % ar.align = 0
        /\ ar.start <= ar_out.ptr
        /\ ar_out.ptr + ar_out.n <= ar_out.prev
        /\ ar_out.prev <= ar.end
        /\ ar.ptr = ar_out.ptr

\* allocate has returned a pointer it had to round down, to a region that
\* starts above the arena's start
C12_Witness ==
    /\ ar_out.opn = "allocate"
    /\ ar_out.outcome = "ok"
    /\ ar.align > 1
    /\ ar_out.n > 0
    /\ ar_out.ptr + ar_out.n < ar_out.prev
    /\ ar.start < ar_out.ptr
    /\ ar_out.prev < ar.end

---------------------------------------------------------------------------
\* Arena growth.

\* the allocating half of insert has just run for a string of n bytes
GrowStep(n) == ar_out'.opn = "insert" /\ ar_out'.n = n /\ ar_out' # ar_out

\* C13: an insert never reaches allocate's exhaustion branch; when the string
\* with its header and padding does not fit in the current arena, the shard
\* pushes a new arena of at least twice the previous capacity and at least
\* header + len + padding, and keeps the previous arena.
C13_GrowthPreventsAbort ==
    [][\A n \in 0..MaxStr :
          (GrowStep(n) /\ cache[0].lazy = "init") =>
              /\ ar_out'.outcome # "abort"
              /\ proc' = "running"
              /\ (~fits(cache[0].alloc, Str(n)) /\ ar_out'.outcome = "ok") =>
                    /\ capacity(cache'[0].alloc) >= 2 * capacity(cache[0].alloc)
                    /\ capacity(cache'[0].alloc) >= HeaderSize + n + (Align - 1)
                    /\ cache'[0].old_allocs =
                          Append(cache[0].old_allocs, cache[0].alloc)
                    /\ ar_out'.ptr - HeaderSize >= cache'[0].alloc.start
              /\ (fits(cache[0].alloc, Str(n)) /\ ar_out'.outcome = "ok") =>
                    /\ cache'[0].old_allocs = cache[0].old_allocs
                    /\ ar_out'.ptr - HeaderSize >= cache[0].alloc.start]_vars

\* a string needing more than twice the first arena has been stored in a second
\* arena made for it, and its entry starts exactly at that arena's start
C13_Witness ==
    /\ ar_out.opn = "insert"
    /\ ar_out.outcome = "ok"
    /\ needed(Str(ar_out.n)) > 2 * INITIAL_ALLOC
    /\ Len(cache[0].old_allocs) = 1
    /\ capacity(cache[0].alloc) = needed(Str(ar_out.n))
    /\ ar_out.ptr - HeaderSize = cache[0].alloc.start

---------------------------------------------------------------------------
\* Shard selection.

\* log2 of a power of two
Log2(n) == CHOOSE k \in 0..7 : Pow2(k) = n

\* bit i of h
Bit(h, i) == (h \div Pow2(i)) % 2

\* the number made of the k bits of h from bit lo upwards
RECURSIVE BitsValue(_, _, _)
BitsValue(h, lo, k) ==
    IF k = 0 THEN 0 ELSE Bit(h, lo) + 2 * BitsValue(h, lo + 1, k - 1)

\* the top log2(NUM_BINS) bits of a digest
TopBits(h) == BitsValue(h, HashBits - Log2(NUM_BINS), Log2(NUM_BINS))

\* the stored entries of shard b whose bytes are x
Stored(b, x) == {p \in cache[b].entries : Estr_as_str(mem, p) = x}

\* C14: whichbin(h) is the top log2(NUM_BINS) bits of h and lies in
\* 0..NUM_BINS-1; from and from_existing work under the lock of shard
\* whichbin(digest(x)) only, and an interned string is stored in that shard
\* and in no other.
C14_ShardSelection ==
    /\ \A h \in 0..(Pow2(HashBits) - 1) :
          whichbin(h) = TopBits(h) /\ whichbin(h) \in Bins
    /\ \A t \in Threads :
          pc[t] \in {"find", "write", "publish", "unlock"} =>
              \A b \in Bins : t \in lock[b] <=> b = whichbin(digest(arg[t]))
    /\ \A b \in Bins : \A p \in cache[b].entries :
          whichbin(digest(Estr_as_str(mem, p))) = b
    /\ \A e \in handed : \A b \in Bins :
          IF b = whichbin(digest(e[1]))
          THEN Stored(b, e[1]) = {e[2]}
          ELSE Stored(b, e[1]) = {}

\* strings have been interned into both shards, and a third call is inside
\* its shard
C14_Witness ==
    /\ \A b \in Bins : \E e \in handed : whichbin(digest(e[1])) = b
    /\ \E t \in Threads : pc[t] = "find"

---------------------------------------------------------------------------
\* Serialisation and publication.

\* the threads inside insert or get_existing of shard b
Inside(b) ==
    {t \in Threads : /\ pc[t] \in {"find", "write", "publish", "unlock"}
                     /\ whichbin(hash[t]) = b}

\* the entry at p holds a complete header and all the bytes of x
Written(p, x) ==
    /\ Rd(mem, as_string_cache_entry(p)) = Len(x)
    /\ Rd(mem, as_string_cache_entry(p) + HashOffset) = digest(x)
    /\ \A i \in 1..Len(x) : Rd(mem, p + i - 1) = x[i]

\* C15: at most one thread is inside insert or get_existing of a shard, and
\* it holds that shard's lock; an entry is completely written before it can
\* be found and before the lock is released, so a successful lookup never
\* sees a partly written entry.
C15_SerialisedAndPublished ==
    /\ \A b \in Bins : Cardinality(Inside(b)) <= 1 /\ lock[b] = Inside(b)
    /\ \A b \in Bins : \A p \in cache[b].entries : \E x \in Texts : Written(p, x)
    /\ \A t \in Threads :
          (pc[t] = "unlock" /\ cur[t] # NULL) => Written(cur[t], arg[t])

\* an entry has been allocated and is not written yet, while another thread
\* waits for the same shard with the same string
C15_Witness ==
    \E t \in Threads, u \in Threads :
        /\ pc[t] = "write"
        /\ ~Written(cur[t], arg[t])
        /\ pc[u] = "lock"
        /\ arg[u] = arg[t]
        /\ arg[t] # <<>>

---------------------------------------------------------------------------
\* Independence of the shards.

\* the steps of a call that wait for, look into, fill or release a shard
Step(t) ==
    \/ Acquire(t)
    \/ Lookup(t)
    \/ InsertWrite(t)
    \/ InsertPublish(t)
    \/ Return(t)

\* thread t is at one of those steps
AtStep(t) ==
    \/ pc[t] \in {"lock", "write", "publish", "unlock"}
    \/ pc[t] = "find" /\ op[t] = "from_existing"

\* C16: there is no global lock: a thread inside a call whose shard is free
\* or held by itself can always take its next step (acquire the shard, look
\* up, write, publish, release), whatever other shards are held by other
\* threads, also during their first-use initialisation or an arena growth.
C16_NoGlobalLock ==
    \A t \in Threads :
        (AtStep(t) /\ lock[whichbin(hash[t])] \subseteq {t}) => ENABLED Step(t)

\* a thread holds a shard whose arena has just grown while another thread is
\* about to lock a different shard that was never used
C16_Witness ==
    \E t \in Threads, u \in Threads :
        /\ pc[u] = "write"
        /\ cache[whichbin(hash[u])].old_allocs # <<>>
        /\ pc[t] = "lock"
        /\ whichbin(hash[t]) # whichbin(hash[u])
        /\ cache[whichbin(hash[t])].lazy = "uninit"

---------------------------------------------------------------------------
\* The identity hasher.

\* the positions of the log that hold a slice of exactly 8 bytes
Eights(log) == {i \in 1..Len(log) : Len(log[i]) = WordBytes}

\* the u64 whose bytes in byte order e are q
NativeValue(q, e) ==
    CHOOSE v \in 0..(Pow2(WordBytes) - 1) : to_ne_bytes(v, e) = q

\* C17: after any sequence of writes, finish() is the native-endian u64 of
\* the most recent write of exactly 8 bytes, or 0 if there was none; writes of
\* any other length change nothing; so a digest fed as one 8-byte write is
\* what finish() returns.
C17_IdentityHasher ==
    hasher.made =>
        /\ IdentityHasher_finish(hasher) =
              IF Eights(hasher.log) = {} THEN 0
              ELSE LET last == CHOOSE i \in Eights(hasher.log) :
                                   \A k \in Eights(hasher.log) : k <= i
                   IN  NativeValue(hasher.log[last], hasher.endian)
        /\ \A d \in 0..(Pow2(HashBits) - 1) :
              (hasher.log # <<>> /\
               hasher.log[Len(hasher.log)] = to_ne_bytes(d, hasher.endian))
                  => IdentityHasher_finish(hasher) = d

\* an 8-byte write of a digest whose bytes are not a palindrome, followed by
\* a longer write
C17_Witness ==
    /\ hasher.made
    /\ Len(hasher.log) = 2
    /\ hasher.log[1] = to_ne_bytes(1, hasher.endian)
    /\ Len(hasher.log[2]) > WordBytes
    /\ hasher.log[2][1] = 1
    /\ IdentityHasher_finish(hasher) = 1

---------------------------------------------------------------------------
\* Ordering and equality of handles.

\* C18: Ord is consistent with Eq on handles: for any two handles a and b
\* obtained from Estr::from, a.cmp(b) is Equal if and only if a == b, also
\* when the digests of two distinct strings collide.
C18_OrdConsistentWithEq ==
    \A a \in Handles, b \in Handles :
        Estr_cmp(mem, a, b) = "Equal" <=> Estr_eq(a, b)

---------------------------------------------------------------------------
\* The arena's cursor.

\* the regions [p, p+n) of a list of <<p, n>> are pairwise disjoint
Disjoint(regs) ==
    \A i \in 1..Len(regs), j \in 1..Len(regs) :
        i # j => \/ regs[i][1] + regs[i][2] <= regs[j][1]
                 \/ regs[j][1] + regs[j][2] <= regs[i][1]

\* C19: after any sequence of allocate calls on one arena the cursor has
\* never increased and lies in start..end, allocated() = end - cursor does
\* not exceed capacity(), and the regions returned by distinct calls with
\* n > 0 are pairwise disjoint.
C19_CursorInvariant ==
    [][/\ (ar_out'.opn \in {"new", "allocate"} /\ ar' # NoArena) =>
              /\ ar'.start <= ar'.ptr
              /\ ar'.ptr <= ar'.end
              /\ allocated(ar') = ar'.end - ar'.ptr
              /\ allocated(ar') <= capacity(ar')
              /\ Disjoint(ar_out'.regs)
       /\ ar_out'.opn = "allocate" =>
              /\ ar'.ptr <= ar.ptr
              /\ ar'.start = ar.start
              /\ ar'.end = ar.end
              /\ capacity(ar') = capacity(ar)]_vars

\* three regions have been returned, two of them with padding after them,
\* and the arena is full
C19_Witness ==
    /\ ar_out.opn = "allocate"
    /\ Len(ar_out.regs) = 3
    /\ ar.align > 1
    /\ ar_out.regs[2][1] + ar_out.regs[2][2] < ar_out.regs[1][1]
    /\ ar_out.regs[3][1] + ar_out.regs[3][2] < ar_out.regs[2][1]
    /\ ar.ptr = ar.start
    /\ allocated(ar) = capacity(ar)

---------------------------------------------------------------------------
\* Progress of the calls.

\* the shards whose lock thread t holds
Held(t) == {b \in Bins : t \in lock[b]}

\* C20: a call holds at most one shard lock, the lock of its own shard, holds
\* none while it waits for that lock or after it has returned, and never
\* ends in a failure: while the process has not aborted, no call has ended
\* in anything but a return.
C20_CallsReturn ==
    \A t \in Threads :
        /\ Cardinality(Held(t)) <= 1
        /\ pc[t] \in {"idle", "lock"} => Held(t) = {}
        /\ pc[t] \in {"find", "write", "publish", "unlock"} =>
              Held(t) = {whichbin(hash[t])}
        /\ proc = "running" => pc[t] # "panicked"

============================================================================
